---------------------------- MODULE Spec2Model ----------------------------
(***************************************************************************)
(* A model of the QuantWeb Pro Scraper (src/main.py): the page fetcher     *)
(* get_page_source, the query interpreter description_to_selector, and the *)
(* two button handlers of the Streamlit script together with the results   *)
(* section they feed.                                                      *)
(*                                                                         *)
(* Python strings are modelled as sequences of one-character strings, so   *)
(* that lower(), strip(), the substring tests, the regular expressions,    *)
(* str.replace and urljoin are computed character by character.            *)
(* An optional value is a sequence of length 0 (None) or 1 (the value).    *)
(***************************************************************************)
EXTENDS Naturals, Sequences, FiniteSets

VARIABLES
  session_state,      \* st.session_state: key -> optional value
  description_input,  \* the text held by the "description_input" widget
  interp,             \* the pair (selector, result_type) of the last call
  cache,              \* st.cache_data of get_page_source: url index -> optional html
  pc,                 \* position of the running script / of get_page_source
  fetch_url,          \* argument of the running get_page_source call
  driver,             \* the browser session: "none", "open", "quit"
  last_height,        \* local of get_page_source
  new_height,         \* local of get_page_source
  iter,               \* loop iterations started, each one scroll and one wait
  ret,                \* value returned by the last get_page_source call
  raised,             \* whether the last call ended in its except branch
  screen,             \* what the last script run rendered
  last,               \* the handler body the last script run executed
  results_src         \* the page html the stored results were extracted from

vars == <<session_state, description_input, interp, cache, pc, fetch_url,
          driver, last_height, new_height, iter, ret, raised,
          screen, last, results_src>>

-----------------------------------------------------------------------------
(* Optional values *)

None == <<>>

Some(x) == <<x>>

IsNone(o) == o = <<>>

Val(o) == o[1]

-----------------------------------------------------------------------------
(* Python str operations, character by character *)

UpperChars == <<"A","B","C","D","E","F","G","H","I","J","K","L","M",
                "N","O","P","Q","R","S","T","U","V","W","X","Y","Z">>

LowerChars == <<"a","b","c","d","e","f","g","h","i","j","k","l","m",
                "n","o","p","q","r","s","t","u","v","w","x","y","z">>

DigitChars == {"0","1","2","3","4","5","6","7","8","9"}

\* the characters str.strip() removes and \s matches
Whitespace == {" ", "\t"}

Range(s) == {s[i] : i \in 1..Len(s)}

lower_char(c) ==
  IF \E i \in 1..Len(UpperChars) : UpperChars[i] = c
  THEN LowerChars[CHOOSE i \in 1..Len(UpperChars) : UpperChars[i] = c]
  ELSE c

\* str.lower()
lower(s) == [i \in 1..Len(s) |-> lower_char(s[i])]

\* str.strip()
strip(s) ==
  LET keep == {i \in 1..Len(s) : s[i] \notin Whitespace}
  IN IF keep = {} THEN <<>>
     ELSE LET lo == CHOOSE i \in keep : \A j \in keep : i <= j
              hi == CHOOSE i \in keep : \A j \in keep : j <= i
          IN SubSeq(s, lo, hi)

\* whether sub occurs in s starting at position i
MatchAt(s, sub, i) ==
  /\ i >= 1
  /\ i + Len(sub) - 1 <= Len(s)
  /\ \A k \in 1..Len(sub) : s[i + k - 1] = sub[k]

\* Python's  sub in s
Contains(s, sub) == \E i \in 1..(Len(s) + 1) : MatchAt(s, sub, i)

\* str.replace(" ", ".")
replace_space_by_dot(s) == [i \in 1..Len(s) |-> IF s[i] = " " THEN "." ELSE s[i]]

RECURSIVE Join(_, _)
\* sep.join(parts)
Join(parts, sep) ==
  IF parts = <<>> THEN <<>>
  ELSE IF Len(parts) = 1 THEN parts[1]
  ELSE parts[1] \o sep \o Join(Tail(parts), sep)

-----------------------------------------------------------------------------
(* description_to_selector *)

Quotes == {"'", "\""}

\* positions at which  <word>\s['"]([^'"]+)['"]  matches in s
QuotedMatches(s, word) ==
  {i \in 1..Len(s) :
     LET q == i + Len(word) + 1
     IN /\ MatchAt(s, word, i)
        /\ q + 2 <= Len(s)
        /\ s[q - 1] \in Whitespace
        /\ s[q] \in Quotes
        /\ s[q + 1] \notin Quotes
        /\ \E j \in (q + 2)..Len(s) : s[j] \in Quotes}

\* group(1) of re.search(<word>\s['"]([^'"]+)['"], s): the leftmost match
QuotedGroup(s, word) ==
  LET ms == QuotedMatches(s, word)
      i  == CHOOSE m \in ms : \A n \in ms : m <= n
      q  == i + Len(word) + 1
      js == {j \in (q + 2)..Len(s) : s[j] \in Quotes}
      j  == CHOOSE x \in js : \A y \in js : x <= y
  IN SubSeq(s, q + 1, j - 1)

keyword_map(k) ==
  IF k = <<"a","l","l"," ","l","i","n","k","s">> THEN Some(<<"a">>)
  ELSE IF k = <<"a","l","l"," ","p","a","r","a","g","r","a","p","h","s">> THEN Some(<<"p">>)
  ELSE IF k = <<"a","l","l"," ","h","e","a","d","i","n","g","s">> THEN Some(<<"h","1",","," ","h","2",","," ","h","3">>)
  ELSE IF k = <<"a","l","l"," ","i","m","a","g","e","s">> THEN Some(<<"i","m","g">>)
  ELSE IF k = <<"a","l","l"," ","l","i","s","t"," ","i","t","e","m","s">> THEN Some(<<"l","i">>)
  ELSE None

\* re.match(r'^[a-zA-Z0-9]+$', s)
IsAlnumToken(s) ==
  /\ s # <<>>
  /\ \A i \in 1..Len(s) :
       s[i] \in Range(LowerChars) \cup Range(UpperChars) \cup DigitChars

\* lines 65-80: what follows the if/elif chain
selector_lookup(description, result_type, query_key) ==
  IF ~IsNone(keyword_map(query_key))
  THEN <<keyword_map(query_key), result_type>>
  ELSE IF QuotedMatches(description, <<"i","d">>) # {}
  THEN <<Some(<<"#">> \o QuotedGroup(description, <<"i","d">>)), result_type>>
  ELSE IF QuotedMatches(description, <<"c","l","a","s","s">>) # {}
  THEN <<Some(<<".">> \o replace_space_by_dot(QuotedGroup(description, <<"c","l","a","s","s">>))),
         result_type>>
  ELSE IF " " \notin Range(description) /\ IsAlnumToken(description)
  THEN <<Some(description), "text">>
  ELSE <<None, result_type>>

\* description_to_selector with the "image" rule placed before the "table" rule
description_to_selector_image_first(raw) ==
  LET description == strip(lower(raw))
  IN IF Contains(description, <<"i","m","a","g","e">>)
     THEN selector_lookup(description, "src", <<"a","l","l"," ","i","m","a","g","e","s">>)
     ELSE IF Contains(description, <<"t","a","b","l","e">>)
     THEN <<Some(<<"t","a","b","l","e">>), "table_data">>
     ELSE selector_lookup(description, "text", description)

description_to_selector(raw) ==
  LET description == strip(lower(raw))
  IN IF Contains(description, <<"t","a","b","l","e">>)
     THEN <<Some(<<"t","a","b","l","e">>), "table_data">>
     ELSE IF Contains(description, <<"i","m","a","g","e">>)
     THEN selector_lookup(description, "src", <<"a","l","l"," ","i","m","a","g","e","s">>)
     ELSE IF Contains(description, <<"l","i","n","k">>) \/ Contains(description, <<"u","r","l">>)
     THEN selector_lookup(description, "href", <<"a","l","l"," ","l","i","n","k","s">>)
     ELSE IF \/ Contains(description, <<"e","n","t","i","r","e"," ","d","a","t","a">>)
             \/ Contains(description, <<"a","l","l"," ","d","a","t","a">>)
             \/ Contains(description, <<"a","l","l"," ","c","o","n","t","e","n","t">>)
     THEN <<Some(<<"b","o","d","y">>), "text_block">>
     ELSE IF Contains(description, <<"a","l","l"," ","p","a","r","a","g","r","a","p","h">>)
     THEN <<Some(<<"p">>), "text_block">>
     ELSE selector_lookup(description, "text", description)

-----------------------------------------------------------------------------
(* The parsed document: BeautifulSoup(page_html, 'html.parser').           *)
(* A page is the sequence of its elements in document order; the empty     *)
(* string is the empty sequence.  An element carries its tag, its id, its  *)
(* class tokens, its src and href attributes (optional), the text nodes    *)
(* below it, and for a table its grid of cells.                            *)

Element(tag, id, class, src, href, texts, grid) ==
  [tag |-> tag, id |-> id, class |-> class, src |-> src, href |-> href,
   texts |-> texts, grid |-> grid]

RECURSIVE AllTexts(_)
AllTexts(els) ==
  IF els = <<>> THEN <<>> ELSE els[1].texts \o AllTexts(Tail(els))

\* a document whose body holds els
Document(els) ==
  <<Element(<<"b","o","d","y">>, None, {}, None, None, AllTexts(els), <<>>)>> \o els

UrlHome == <<"h","t","t","p","s",":","/","/","e","x",".","c","o","m","/">>

UrlShop == <<"h","t","t","p","s",":","/","/","e","x",".","c","o","m","/","s","h","o","p","/","l","i","s","t">>

Urls == {UrlHome, UrlShop}

PageHome ==
  Document(<<
    Element(<<"a">>, None, {}, None, Some(<<"/","a">>), <<<<"A">>>>, <<>>),
    Element(<<"a">>, None, {}, None, Some(<<"x">>), <<<<" ","B"," ">>>>, <<>>),
    Element(<<"a">>, None, {}, None, None, <<<<" ">>>>, <<>>),
    Element(<<"p">>, None, {}, None, None, <<<<"H","i">>, <<" ">>, <<"y","o"," ">>>>, <<>>),
    Element(<<"t","a","b","l","e">>, None, {}, None, None, <<<<"k">>, <<"1">>>>,
            << <<<<"k">>>>, <<<<"1">>>> >>) >>)

PageShop ==
  Document(<<
    Element(<<"h","1">>, Some(<<"m","a","i","n">>), {}, None, None, <<<<"S","h","o","p">>>>, <<>>),
    Element(<<"i","m","g">>, None, {}, Some(<<"p","i","c",".","p","n","g">>), None, <<>>, <<>>),
    Element(<<"i","m","g">>, None, {}, Some(<<"d","a","t","a",":","i","m","a","g","e","/","g","i","f",";","b","a","s","e","6","4",",","R","0">>), None, <<>>, <<>>),
    Element(<<"i","m","g">>, None, {}, Some(<<"d","a","t","a",":","i","m","a","g","e","/","p","n","g",";","b","a","s","e","6","4",",","i","V">>), None, <<>>, <<>>),
    Element(<<"i","m","g">>, None, {}, Some(<<>>), None, <<>>, <<>>),
    Element(<<"i","m","g">>, None, {}, None, None, <<>>, <<>>),
    Element(<<"i","m","g">>, None, {}, Some(<<"/","i","/","b",".","j","p","g">>), None, <<>>, <<>>),
    Element(<<"d","i","v">>, None, {<<"p","r","i","c","e">>, <<"t","a","g">>}, None, None, <<<<"9">>>>, <<>>),
    Element(<<"d","i","v">>, None, {<<"p","r","i","c","e">>}, None, None, <<<<"7">>>>, <<>>) >>)

\* driver.page_source once the browser has loaded url
Web(url) == IF url = UrlHome THEN PageHome ELSE PageShop

\* el.get(attr, '')
get_attr(o) == IF IsNone(o) THEN <<>> ELSE Val(o)

RECURSIVE StrippedTexts(_)
\* the stripped, non-empty text nodes of an element
StrippedTexts(texts) ==
  IF texts = <<>> THEN <<>>
  ELSE IF strip(texts[1]) = <<>> THEN StrippedTexts(Tail(texts))
  ELSE <<strip(texts[1])>> \o StrippedTexts(Tail(texts))

\* el.get_text(strip=True, separator=sep)
get_text(el, sep) == Join(StrippedTexts(el.texts), sep)

-----------------------------------------------------------------------------
(* soup.select(selector) for the selectors description_to_selector builds  *)
(* from the descriptions of this model: comma-separated compound selectors *)
(* made of a tag name, #id and .class parts.                               *)

IdentChars == Range(LowerChars) \cup Range(UpperChars) \cup DigitChars \cup {"-", "_"}

RECURSIVE SplitOn(_, _)
\* s.split(c)
SplitOn(s, c) ==
  IF c \notin Range(s) THEN <<s>>
  ELSE LET i == CHOOSE k \in 1..Len(s) : s[k] = c /\ \A j \in 1..(k - 1) : s[j] # c
       IN <<SubSeq(s, 1, i - 1)>> \o SplitOn(SubSeq(s, i + 1, Len(s)), c)

\* the positions of the # and . that start a part of compound selector s
PartStarts(s) == {i \in 1..Len(s) : s[i] \in {"#", "."}}

\* the name that follows the # or . at position i
PartName(s, i) ==
  LET later == {j \in PartStarts(s) : j > i}
      stop  == IF later = {} THEN Len(s) + 1
               ELSE CHOOSE j \in later : \A k \in later : j <= k
  IN SubSeq(s, i + 1, stop - 1)

\* the tag name a compound selector starts with (empty: any tag)
TagPart(s) ==
  IF PartStarts(s) = {} THEN s
  ELSE SubSeq(s, 1, (CHOOSE j \in PartStarts(s) : \A k \in PartStarts(s) : j <= k) - 1)

\* whether soupsieve accepts compound selector s
ValidCompound(s) ==
  /\ s # <<>>
  /\ Range(TagPart(s)) \subseteq IdentChars
  /\ \A i \in PartStarts(s) :
       /\ PartName(s, i) # <<>>
       /\ Range(PartName(s, i)) \subseteq IdentChars

MatchesCompound(el, s) ==
  /\ TagPart(s) # <<>> => el.tag = TagPart(s)
  /\ \A i \in PartStarts(s) :
       IF s[i] = "#" THEN el.id = Some(PartName(s, i))
       ELSE PartName(s, i) \in el.class

SelectorGroups(selector) ==
  LET parts == SplitOn(selector, ",")
  IN [i \in 1..Len(parts) |-> strip(parts[i])]

\* whether soup.select(selector) raises SelectorSyntaxError
select_raises(selector) ==
  \E i \in 1..Len(SelectorGroups(selector)) :
     ~ValidCompound(SelectorGroups(selector)[i])

RECURSIVE select(_, _)
\* soup.select(selector): the matching elements in document order
select(soup, selector) ==
  IF soup = <<>> THEN <<>>
  ELSE LET groups == SelectorGroups(selector)
           hit == \E i \in 1..Len(groups) : MatchesCompound(soup[1], groups[i])
       IN (IF hit THEN <<soup[1]>> ELSE <<>>) \o select(Tail(soup), selector)

RECURSIVE read_html_tables(_)
\* the grids pd.read_html finds
read_html_tables(page) ==
  IF page = <<>> THEN <<>>
  ELSE (IF page[1].tag = <<"t","a","b","l","e">> THEN <<page[1].grid>> ELSE <<>>)
       \o read_html_tables(Tail(page))

\* pd.read_html raises ValueError("No tables found") when there is none
read_html_raises(page) == read_html_tables(page) = <<>>

-----------------------------------------------------------------------------
(* urllib.parse.urljoin(base, ref) for an http(s) base and the references  *)
(* of this model: a reference with a scheme, an absolute path, or a        *)
(* relative path without dot segments, query or fragment.                  *)

SchemeChars == Range(LowerChars) \cup Range(UpperChars) \cup DigitChars \cup {"+", "-", "."}

\* the position of the ":" ending the scheme of ref, 0 if ref has no scheme
SchemeEnd(ref) ==
  LET cs == {i \in 2..Len(ref) :
               /\ ref[i] = ":"
               /\ ref[1] \in Range(LowerChars) \cup Range(UpperChars)
               /\ \A j \in 1..(i - 1) : ref[j] \in SchemeChars}
  IN IF cs = {} THEN 0 ELSE CHOOSE i \in cs : TRUE

\* the position of the first "/" of the path of base, 0 if base has no path
PathStart(base) ==
  LET auth == SchemeEnd(base) + 3
      ps == {i \in auth..Len(base) : base[i] = "/"}
  IN IF ps = {} THEN 0 ELSE CHOOSE i \in ps : \A j \in ps : i <= j

\* the position of the last "/" of the path of base
LastSlash(base) ==
  CHOOSE i \in PathStart(base)..Len(base) :
     base[i] = "/" /\ \A j \in (i + 1)..Len(base) : base[j] # "/"

urljoin(base, ref) ==
  IF ref = <<>> THEN base
  ELSE IF SchemeEnd(ref) # 0 THEN ref
  ELSE IF PathStart(base) = 0 THEN
    base \o (IF ref[1] = "/" THEN <<>> ELSE <<"/">>) \o ref
  ELSE IF ref[1] = "/" THEN SubSeq(base, 1, PathStart(base) - 1) \o ref
  ELSE SubSeq(base, 1, LastSlash(base)) \o ref

-----------------------------------------------------------------------------
(* The Streamlit script: session state, the two button handlers and the    *)
(* results section.  Every user event runs the script from top to bottom.  *)

Keys == {"page_html", "url", "results_df", "results_text", "selector",
         "table_list", "description"}

\* line 103, with results_df left out
ScrapeClearedKeys_keep_df == {"results_text", "table_list", "description"}

\* line 103
ScrapeClearedKeys == {"results_df", "results_text", "table_list", "description"}

\* line 142, with results_text left out
ExtractClearedKeys_keep_text == {"results_df", "table_list"}

\* line 142
ExtractClearedKeys == {"results_df", "results_text", "table_list"}

Clear(ss, keys) == [k \in Keys |-> IF k \in keys THEN None ELSE ss[k]]

\* Python truthiness of an optional string or list
Truthy(o) == ~IsNone(o) /\ Val(o) # <<>>

\* line 107, but rendering the section whenever a page was stored at all
page_scraped_is_not_none(ss) == ~IsNone(ss["page_html"])

\* line 107: if st.session_state.page_html
page_scraped(ss) == Truthy(ss["page_html"])

\* line 132: the description key follows the widget while it is rendered
bind_description(ss, text) ==
  IF page_scraped(ss) THEN [ss EXCEPT !["description"] = Some(text)] ELSE ss

\* the widget keeps its text only while a script run renders it
widget_after(ss, text) == IF page_scraped(ss) THEN text ELSE <<>>

\* line 160: the src values the loop keeps
keep_src(content) ==
  content # <<>> /\ ~Contains(content, <<"d","a","t","a",":","i","m","a","g","e","/","g","i","f",";","b","a","s","e","6","4">>)

RECURSIVE data_list(_, _, _)
\* lines 156-167
data_list(elements, result_type, url) ==
  IF elements = <<>> THEN <<>>
  ELSE LET el == elements[1]
           content == IF result_type = "src" THEN get_attr(el.src)
                      ELSE IF result_type = "href" THEN get_attr(el.href)
                      ELSE get_text(el, <<" ">>)
           keep == IF result_type = "src" THEN keep_src(content)
                   ELSE content # <<>>
           item == IF result_type \in {"src", "href"} THEN urljoin(url, content)
                   ELSE content
       IN (IF keep THEN <<item>> ELSE <<>>)
          \o data_list(Tail(elements), result_type, url)

RECURSIVE block_texts(_)
\* lines 153-154: filter(None, [el.get_text(strip=True) for el in elements])
block_texts(elements) ==
  IF elements = <<>> THEN <<>>
  ELSE (IF get_text(elements[1], <<>>) = <<>> THEN <<>>
        ELSE <<get_text(elements[1], <<>>)>>)
       \o block_texts(Tail(elements))

\* lines 139-172: the Extract Data handler on session state ss.  The result
\* gives the new session state, the messages shown, the (selector,
\* result_type) pair computed, and whether an uncaught exception ended the
\* script run.
extract_data(ss, old_interp) ==
  LET description == Val(ss["description"])
      r   == description_to_selector(description)
      sel == r[1]
      ss1 == Clear(ss, ExtractClearedKeys)
      ss2 == [ss1 EXCEPT !["selector"] = sel]
      page == Val(ss["page_html"])
      out(s, m, i, a) == [ss |-> s, messages |-> m, interp |-> i, aborted |-> a]
  IN IF description = <<>>
     THEN out(ss, {"warning_no_description"}, old_interp, FALSE)
     ELSE IF ~Truthy(sel)
     THEN out(ss1, {"error_not_understood"}, r, FALSE)
     ELSE IF r[2] = "table_data"
     THEN IF read_html_raises(page)
          THEN out(ss2, {"error_parse_tables"}, r, FALSE)
          ELSE out([ss2 EXCEPT !["table_list"] = Some(read_html_tables(page))],
                   {}, r, FALSE)
     ELSE IF select_raises(Val(sel))
     THEN out(ss2, {"exception"}, r, TRUE)
     ELSE IF r[2] = "text_block"
     THEN out([ss2 EXCEPT !["results_text"] =
                 Some(Join(block_texts(select(page, Val(sel))), <<"\\","n","\\","n">>))],
              {}, r, FALSE)
     ELSE out([ss2 EXCEPT !["results_df"] =
                 Some(data_list(select(page, Val(sel)), r[2], Val(ss["url"])))],
              {}, r, FALSE)

\* lines 174-198: which results are shown and how many download buttons
results_section(ss) ==
  IF IsNone(ss["results_df"]) /\ IsNone(ss["results_text"]) /\ IsNone(ss["table_list"])
  THEN [results |-> "none", downloads |-> 0]
  ELSE IF Truthy(ss["table_list"])
  THEN [results |-> "tables", downloads |-> Len(Val(ss["table_list"]))]
  ELSE IF ~IsNone(ss["results_text"])
  THEN [results |-> "text", downloads |-> 1]
  ELSE IF ~IsNone(ss["results_df"])
  THEN IF Val(ss["results_df"]) # <<>>
       THEN [results |-> "items", downloads |-> 1]
       ELSE [results |-> "zero_items", downloads |-> 0]
  ELSE [results |-> "none", downloads |-> 0]

\* what a script run leaves on the screen
render(ss, messages, aborted) ==
  LET shown == IF aborted THEN [results |-> "none", downloads |-> 0]
               ELSE results_section(ss)
  IN [extract_ui |-> page_scraped(ss),
      messages   |-> messages,
      results    |-> shown.results,
      downloads  |-> shown.downloads]

MaxHeight == 2

Heights == 1..MaxHeight

\* line 31: range(5)
MaxScrolls == 5

\* line 35 without the break
loop_breaks_never(new, old) == FALSE

\* line 35: if new_height == last_height: break
loop_breaks(new, old) == new = old

\* the descriptions a user types in this model
Descriptions ==
  { <<>>, <<"a","l","l"," ","l","i","n","k","s">>, <<"A","l","l"," ","I","m","a","g","e","s"," ">>, <<"t","h","e"," ","t","a","b","l","e">>, <<"a","l","l"," ","p","a","r","a","g","r","a","p","h","s">>,
    <<"c","l","a","s","s"," ","'","p","r","i","c","e"," ","t","a","g","'">>, <<"c","l","a","s","s"," ","'","p","r","i","c","e"," "," ","t","a","g","'">>, <<"i","d"," ","'","m","a","i","n","'">>, <<"?","?","?">>, <<"h","1">> }

-----------------------------------------------------------------------------

Init ==
  /\ session_state = [k \in Keys |-> None]
  /\ description_input = <<>>
  /\ interp = <<None, "text">>
  /\ cache = [u \in Urls |-> None]
  /\ pc = "idle"
  /\ fetch_url = <<>>
  /\ driver = "none"
  /\ last_height = 0
  /\ new_height = 0
  /\ iter = 0
  /\ ret = <<>>
  /\ raised = FALSE
  /\ screen = render([k \in Keys |-> None], {}, FALSE)
  /\ last = "none"
  /\ results_src = None

fetch_vars == <<fetch_url, driver, last_height, new_height, iter, ret, raised>>

ui_vars == <<session_state, description_input, interp, screen, last, results_src>>

\* the rest of a script run in which no Extract click is served
finish_run(ss, messages, event) ==
  LET ss1 == bind_description(ss, description_input)
  IN /\ session_state' = ss1
     /\ description_input' = widget_after(ss1, description_input)
     /\ screen' = render(ss1, messages, FALSE)
     /\ last' = event

\* lines 99-105 with an empty URL box
ScrapeEmptyUrl ==
  /\ pc = "idle"
  /\ finish_run(session_state, {"warning_no_url"}, "none")
  /\ UNCHANGED <<interp, cache, pc, fetch_vars, results_src>>

\* lines 99-102: the click stores the URL and calls get_page_source
ScrapeClick(u) ==
  /\ pc = "idle"
  /\ session_state' = [session_state EXCEPT !["url"] = Some(u)]
  /\ fetch_url' = u
  /\ pc' = "call"
  /\ UNCHANGED <<description_input, interp, cache, driver, last_height, new_height,
                 iter, ret, raised, screen, last, results_src>>

\* line 15: st.cache_data returns the stored value without running the body
CacheHit ==
  /\ pc = "call"
  /\ ~IsNone(cache[fetch_url])
  /\ ret' = Val(cache[fetch_url])
  /\ raised' = (Val(cache[fetch_url]) = <<>>)
  /\ pc' = "assign"
  /\ UNCHANGED <<ui_vars, cache, fetch_url, driver, last_height, new_height, iter>>

\* the function returns value; its locals end with the call
return_value(value) ==
  /\ ret' = value
  /\ cache' = [cache EXCEPT ![fetch_url] = Some(value)]
  /\ pc' = "assign"
  /\ last_height' = 0
  /\ new_height' = 0
  /\ iter' = 0

\* lines 41-43: a statement of the try block raises; except Exception
\* reports the error and returns ""
raise_and_catch ==
  /\ raised' = TRUE
  /\ return_value(<<>>)
  /\ UNCHANGED driver

\* lines 19-27: the body starts; webdriver.Chrome starts a session or raises
StartDriver ==
  /\ pc = "call"
  /\ IsNone(cache[fetch_url])
  /\ \/ /\ driver' = "open"
        /\ pc' = "get"
        /\ raised' = FALSE
        /\ UNCHANGED <<cache, last_height, new_height, iter, ret>>
     \/ raise_and_catch
  /\ UNCHANGED <<ui_vars, fetch_url>>

\* line 28: driver.get(url)
DriverGet ==
  /\ pc = "get"
  /\ \/ /\ pc' = "read_height"
        /\ UNCHANGED <<cache, driver, last_height, new_height, iter, ret, raised>>
     \/ raise_and_catch
  /\ UNCHANGED <<ui_vars, fetch_url>>

\* line 30
ReadHeight ==
  /\ pc = "read_height"
  /\ \/ /\ \E h \in Heights : last_height' = h
        /\ pc' = "loop"
        /\ UNCHANGED <<cache, driver, new_height, iter, ret, raised>>
     \/ raise_and_catch
  /\ UNCHANGED <<ui_vars, fetch_url>>

\* lines 31-33: the next iteration scrolls and sleeps, or the range is used up
LoopScroll ==
  /\ pc = "loop"
  /\ \/ /\ iter < MaxScrolls
        /\ iter' = iter + 1
        /\ pc' = "new_height"
        /\ UNCHANGED <<cache, driver, last_height, new_height, ret, raised>>
     \/ /\ iter < MaxScrolls
        /\ raise_and_catch
     \/ /\ iter >= MaxScrolls
        /\ pc' = "page_source"
        /\ UNCHANGED <<cache, driver, last_height, new_height, iter, ret, raised>>
  /\ UNCHANGED <<ui_vars, fetch_url>>

\* lines 34-36: read the height, break if it is unchanged, else record it
ReadNewHeight ==
  /\ pc = "new_height"
  /\ \/ /\ \E h \in Heights :
             /\ new_height' = h
             /\ IF loop_breaks(h, last_height)
                THEN pc' = "page_source" /\ last_height' = last_height
                ELSE pc' = "loop" /\ last_height' = h
        /\ UNCHANGED <<cache, driver, iter, ret, raised>>
     \/ raise_and_catch
  /\ UNCHANGED <<ui_vars, fetch_url>>

\* lines 38-40: html = driver.page_source; driver.quit(); return html
PageSourceQuitReturn ==
  /\ pc = "page_source"
  /\ \/ /\ driver' = "quit"
        /\ return_value(Web(fetch_url))
        /\ UNCHANGED raised
     \/ raise_and_catch
  /\ UNCHANGED <<ui_vars, fetch_url>>

\* lines 102-103 and the rest of the script run
ScrapeFinish ==
  /\ pc = "assign"
  /\ finish_run(Clear([session_state EXCEPT !["page_html"] = Some(ret)],
                      ScrapeClearedKeys),
                IF raised THEN {"error_scraping"} ELSE {}, "scrape")
  /\ pc' = "idle"
  /\ driver' = "none"
  /\ UNCHANGED <<interp, cache, fetch_url, last_height, new_height, iter,
                 ret, raised, results_src>>

\* the user commits a new text in the description box
EditDescription(d) ==
  /\ pc = "idle"
  /\ screen.extract_ui
  /\ d # description_input
  /\ LET ss1 == bind_description(session_state, d)
     IN /\ session_state' = ss1
        /\ description_input' = widget_after(ss1, d)
        /\ screen' = render(ss1, {}, FALSE)
  /\ last' = "none"
  /\ UNCHANGED <<interp, cache, pc, fetch_vars, results_src>>

\* lines 138-172 and the results section
ExtractClick ==
  /\ pc = "idle"
  /\ screen.extract_ui
  /\ LET o == extract_data(bind_description(session_state, description_input), interp)
     IN /\ session_state' = o.ss
        /\ interp' = o.interp
        /\ screen' = render(o.ss, o.messages, o.aborted)
        /\ results_src' = IF description_input = <<>> THEN results_src
                          ELSE session_state["page_html"]
  /\ last' = IF description_input = <<>> THEN "none" ELSE "extract"
  /\ UNCHANGED <<description_input, cache, pc, fetch_vars>>

Next ==
  \/ ScrapeEmptyUrl
  \/ \E u \in Urls : ScrapeClick(u)
  \/ CacheHit
  \/ StartDriver
  \/ DriverGet
  \/ ReadHeight
  \/ LoopScroll
  \/ ReadNewHeight
  \/ PageSourceQuitReturn
  \/ ScrapeFinish
  \/ \E d \in Descriptions : EditDescription(d)
  \/ ExtractClick

Spec == Init /\ [][Next]_vars

-----------------------------------------------------------------------------
(* description_to_selector on its own: the inputs are all concatenations   *)
(* of at most MaxFragments of the fragments below.                         *)

MaxFragments == 3

Fragments ==
  << <<"t","a","b","l","e">>, <<"T","a","B","l","e">>, <<" ">>, <<"s">>, <<"a","l","l"," ","i","m","a","g","e","s">>, <<"l","i","n","k">>, <<"u","r","l">>,
     <<"c","l","a","s","s"," ","'","p","r","i","c","e"," ","t","a","g","'">>, <<"c","l","a","s","s"," ","\"","a"," "," ","b","\"">>, <<"c","l","a","s","s"," ","'","B","i","g","'">>, <<"i","d"," ","'","m","a","i","n","'">>,
     <<"a","l","l"," ","d","a","t","a">>, <<"a","l","l"," ","p","a","r","a","g","r","a","p","h">>, <<"a","l","l"," ","h","e","a","d","i","n","g","s">>, <<"x","y","z","1","2","3">>, <<"?","?","?">> >>

RECURSIVE Concat(_)
Concat(choice) ==
  IF choice = <<>> THEN <<>>
  ELSE Fragments[choice[1]] \o Concat(Tail(choice))

InterpInputs ==
  {Concat(c) : c \in UNION {[1..n -> 1..Len(Fragments)] : n \in 0..MaxFragments}}

InitInterp ==
  /\ session_state = [k \in Keys |-> None]
  /\ description_input \in InterpInputs
  /\ interp = <<None, "text">>
  /\ cache = [u \in Urls |-> None]
  /\ pc = "interpret"
  /\ fetch_url = <<>>
  /\ driver = "none"
  /\ last_height = 0
  /\ new_height = 0
  /\ iter = 0
  /\ ret = <<>>
  /\ raised = FALSE
  /\ screen = render([k \in Keys |-> None], {}, FALSE)
  /\ last = "none"
  /\ results_src = None

\* line 141 alone
Interpret ==
  /\ pc = "interpret"
  /\ interp' = description_to_selector(description_input)
  /\ pc' = "interpreted"
  /\ UNCHANGED <<session_state, description_input, cache, fetch_vars, screen,
                 last, results_src>>

NextInterp == Interpret

SpecInterp == InitInterp /\ [][NextInterp]_vars

-----------------------------------------------------------------------------
(* The claims *)

\* whether "table" occurs in d once its letters are lowercased
MentionsTable(d) ==
  \E i \in 1..Len(d) :
     /\ i + 4 <= Len(d)
     /\ <<lower_char(d[i]), lower_char(d[i + 1]), lower_char(d[i + 2]),
          lower_char(d[i + 3]), lower_char(d[i + 4])>> = <<"t","a","b","l","e">>

\* C1: every description whose lowercased, trimmed text contains "table"
\* anywhere, whatever else it contains, is answered with the table sentinel
\* selector and the result type table_data.
C1_TableAlwaysWins ==
  (pc = "interpreted" /\ MentionsTable(description_input))
    => interp = <<Some(<<"t","a","b","l","e">>), "table_data">>

C1_Witness ==
  /\ pc = "interpreted"
  /\ description_input = <<"a","l","l"," ","i","m","a","g","e","s","T","a","B","l","e">>
  /\ interp[2] = "table_data"

ResultKeys == {"results_df", "results_text", "table_list"}

\* the number of result fields that are not None
Populated(ss) == Cardinality({k \in ResultKeys : ~IsNone(ss[k])})

\* a step of the Extract Data handler run with a non-empty description
ExtractStep == pc = "idle" /\ pc' = "idle" /\ last' = "extract"

\* C2: an Extract action whose non-empty description is not understood
\* (selector None) leaves results_df, results_text and table_list as they
\* were before the action.
C2_UnrecognizedKeepsResults ==
  [][(ExtractStep /\ IsNone(interp'[1]))
       => \A k \in ResultKeys : session_state'[k] = session_state[k]]_vars

C4_ScrapeReplacesEverything ==
  /\ (pc = "idle" /\ last = "scrape") =>
        /\ session_state["page_html"] = Some(ret)
        /\ session_state["url"] = Some(fetch_url)
        /\ Populated(session_state) = 0
  /\ Populated(session_state) > 0 => results_src = session_state["page_html"]

C4_Witness ==
  /\ pc = "idle"
  /\ last = "scrape"
  /\ raised
  /\ session_state["selector"] = Some(<<"a">>)
  /\ Populated(session_state) = 0

\* C5: a fetch in which the browser session raises returns the empty string,
\* the stored page HTML becomes empty, and while the stored page HTML is
\* empty the Extract action is not offered and cannot run.
C5_FailedFetchDisablesExtract ==
  /\ (pc = "assign" /\ raised) => ret = <<>>
  /\ (pc = "idle" /\ last = "scrape" /\ raised) =>
        session_state["page_html"] = Some(<<>>)
  /\ ~Truthy(session_state["page_html"]) =>
        ~screen.extract_ui /\ ~ENABLED ExtractClick

C5_Witness ==
  /\ pc = "idle"
  /\ last = "scrape"
  /\ raised
  /\ session_state["url"] = Some(UrlShop)
  /\ cache[UrlHome] = Some(PageHome)
  /\ ~screen.extract_ui

\* C6: a query of shape text, src, href or text_block that yields nothing
\* is not an error, and no download is offered for its empty result.
C6_NoDownloadForEmptyResult ==
  ( /\ last = "extract"
    /\ interp[2] \in {"text", "src", "href", "text_block"}
    /\ \/ session_state["results_df"] = Some(<<>>)
       \/ session_state["results_text"] = Some(<<>>) )
    => screen.downloads = 0 /\ screen.messages = {}

\* an inline base64-encoded image: a data: URI of any image type
IsInlineBase64Image(s) == MatchAt(s, <<"d","a","t","a",":","i","m","a","g","e","/">>, 1) /\ Contains(s, <<";","b","a","s","e","6","4",",">>)

RECURSIVE ExpectedSrcList(_, _)
\* the absolute src values of els, leaving out empty and inline base64 ones
ExpectedSrcList(els, url) ==
  IF els = <<>> THEN <<>>
  ELSE (IF get_attr(els[1].src) # <<>> /\ ~IsInlineBase64Image(get_attr(els[1].src))
        THEN <<urljoin(url, get_attr(els[1].src))>> ELSE <<>>)
       \o ExpectedSrcList(Tail(els), url)

\* C7: an extraction of shape src yields, in document order, exactly the
\* non-empty src values of the matched elements that are not inline base64
\* placeholder images of any image type, each made absolute.
C7_SrcListOmitsInlineImages ==
  (last = "extract" /\ interp[2] = "src" /\ ~IsNone(session_state["results_df"]))
    => Val(session_state["results_df"]) =
         ExpectedSrcList(select(Val(session_state["page_html"]),
                                Val(session_state["selector"])),
                         Val(session_state["url"]))

RECURSIVE NonEmpty(_)
NonEmpty(parts) ==
  IF parts = <<>> THEN <<>>
  ELSE (IF parts[1] = <<>> THEN <<>> ELSE <<parts[1]>>) \o NonEmpty(Tail(parts))

\* whether one of the rules before the class rule answers description d
EarlierRuleApplies(d) ==
  \/ \E w \in {<<"t","a","b","l","e">>, <<"i","m","a","g","e">>, <<"l","i","n","k">>, <<"u","r","l">>, <<"e","n","t","i","r","e"," ","d","a","t","a">>, <<"a","l","l"," ","d","a","t","a">>,
               <<"a","l","l"," ","c","o","n","t","e","n","t">>, <<"a","l","l"," ","p","a","r","a","g","r","a","p","h">>} : Contains(d, w)
  \/ ~IsNone(keyword_map(d))
  \/ QuotedMatches(d, <<"i","d">>) # {}

\* C8: a description that triggers no earlier rule and contains
\* class '<value>' is answered with "." followed by the space-separated
\* tokens of <value> joined by ".", and the result type text.
C8_CompoundClassSelector ==
  LET d == strip(lower(description_input))
  IN (pc = "interpreted" /\ ~EarlierRuleApplies(d) /\ QuotedMatches(d, <<"c","l","a","s","s">>) # {})
       => interp = <<Some(<<".">> \o Join(NonEmpty(SplitOn(QuotedGroup(d, <<"c","l","a","s","s">>), " ")),
                                      <<".">>)),
                     "text">>

\* a step that reads the height at the end of a scroll-and-wait cycle
\* which is not the last of the range
HeightReadStep == pc = "new_height" /\ pc' # "assign" /\ iter < MaxScrolls

\* C9 as claimed: at most MaxScrolls cycles, and the loop is left after the
\* first cycle in which the height did not increase, also when it decreased.
C9_StopsOnceNotIncreasing ==
  /\ [](iter <= MaxScrolls)
  /\ [][(HeightReadStep /\ new_height' <= last_height) => pc' = "page_source"]_vars

\* C9 as amended: at most MaxScrolls cycles, and the loop is left after the
\* first cycle in which the height equals the one recorded before; a cycle
\* in which the height differs, larger or smaller, is followed by the next.
C9_StopsOnceUnchanged ==
  /\ [](iter <= MaxScrolls)
  /\ [][(pc = "loop" /\ pc' = "new_height") => iter < MaxScrolls]_vars
  /\ [][HeightReadStep =>
          (pc' = "page_source" <=> new_height' = last_height)]_vars

C9_Witness ==
  /\ pc = "page_source"
  /\ iter = 2
  /\ new_height = last_height

\* C10: whenever get_page_source has returned, the browser session it
\* started has been quit.
C10_NoSessionLeftOpen == pc = "assign" => driver # "open"

=============================================================================
